---------------------------- MODULE Spec2Model ----------------------------
(***************************************************************************)
(* Medication reminder bot: schedule generation, polling/dispatch,         *)
(* acknowledgment handling and duplicate reconciliation, modelled from     *)
(* main.py, clean_duplicates.py and debug_schedule.py.                     *)
(*                                                                         *)
(* The table medication_history is the variable history (a set of rows);   *)
(* every await / store round trip of the code is one action, so that the   *)
(* interleavings of concurrent coroutines, processes and scripts are the   *)
(* interleavings of the model.                                             *)
(***************************************************************************)
EXTENDS Integers, Sequences, FiniteSets, TLC

(***************************************************************************)
(* Bounds of the model.                                                    *)
(***************************************************************************)
MaxRows == 3         \* rows ever inserted into medication_history
MaxDay == 2          \* civil dates 1..MaxDay
MaxDeliveries == 2   \* delivery counts saturate here
MaxRandom == 2       \* distinct values uuid4 can return

(***************************************************************************)
(* Time-of-day strings are sequences of one-character strings, so that     *)
(* split(':') and int() are computed as Python computes them.              *)
(***************************************************************************)
T0920 == <<"0", "9", ":", "2", "0">>
T0950 == <<"0", "9", ":", "5", "0">>
T1005 == <<"1", "0", ":", "0", "5">>
TBad == <<"b", "a", "d">>
T2430 == <<"2", "4", ":", "3", "0">>
T095x == <<"0", "9", ":", "5", "x">>
T2358 == <<"2", "3", ":", "5", "8">>

Digits == {"0", "1", "2", "3", "4", "5", "6", "7", "8", "9"}

DigitVal(c) ==
    CASE c = "0" -> 0 [] c = "1" -> 1 [] c = "2" -> 2 [] c = "3" -> 3
      [] c = "4" -> 4 [] c = "5" -> 5 [] c = "6" -> 6 [] c = "7" -> 7
      [] c = "8" -> 8 [] c = "9" -> 9 [] OTHER -> 0

\* str.split(sep): the list of the pieces between occurrences of sep
RECURSIVE split(_, _)
split(s, sep) ==
    IF \A i \in 1..Len(s) : s[i] # sep
    THEN <<s>>
    ELSE LET k == CHOOSE i \in 1..Len(s) :
                      s[i] = sep /\ \A j \in 1..(i - 1) : s[j] # sep
         IN  <<SubSeq(s, 1, k - 1)>> \o split(SubSeq(s, k + 1, Len(s)), sep)

\* int() strips surrounding blanks
RECURSIVE strip(_)
strip(s) ==
    IF s = <<>> THEN s
    ELSE IF Head(s) = " " THEN strip(Tail(s))
    ELSE IF s[Len(s)] = " " THEN strip(SubSeq(s, 1, Len(s) - 1))
    ELSE s

RECURSIVE DigitsVal(_)
DigitsVal(s) ==
    IF s = <<>> THEN 0
    ELSE DigitsVal(SubSeq(s, 1, Len(s) - 1)) * 10 + DigitVal(s[Len(s)])

\* the digits of an int() literal after the blanks and the optional sign
IntBody(s) ==
    LET t == strip(s)
    IN  IF t # <<>> /\ Head(t) \in {"-", "+"} THEN Tail(t) ELSE t

\* int(s) does not raise ValueError
IntOk(s) ==
    LET b == IntBody(s)
    IN  b # <<>> /\ \A i \in 1..Len(b) : b[i] \in Digits

IntVal(s) ==
    LET t == strip(s)
    IN  IF t # <<>> /\ Head(t) = "-" THEN 0 - DigitsVal(IntBody(s))
        ELSE DigitsVal(IntBody(s))

\* only the number of pieces is checked
ParseOk_SplitOnly(t_str) == Len(split(t_str, ":")) = 2

\* h, m = map(int, t_str.split(':')) does not raise ValueError
ParseOk(t_str) ==
    LET parts == split(t_str, ":")
    IN  Len(parts) = 2 /\ IntOk(parts[1]) /\ IntOk(parts[2])

\* t_min = h * 60 + m
ParseMinutes(t_str) ==
    LET parts == split(t_str, ":")
    IN  IntVal(parts[1]) * 60 + IntVal(parts[2])

(***************************************************************************)
(* Domains.                                                                *)
(***************************************************************************)
MedIds == {1, 2}
Procs == {"s1", "s2"}
Statuses == {"pending", "sent", "taken", "missed"}
Days == 1..MaxDay
RowIds == 1..MaxRows

\* minutes of the day at which the clock is read: around the scheduled
\* times of the medications, and in the early morning before any is due
ClockPoints == {590, 600}
EarlyPoints == {300, 320}

\* minutes of the day late in the evening
LatePoints == {1290, 1300}

\* the catch-up window of _get_pending_now_sync
CatchUpWindow == 30

\* uuid.uuid5(NAMESPACE_DNS, f"{med_id}_{today}_{t_str}"): a function of the
\* formatted string alone, injective on the tuples of the model
uuid5(med_id, today, t_str) == <<"uuid5", med_id, today, t_str>>

\* the values uuid.uuid4() can return
uuid4_values == {<<"uuid4", n>> : n \in 1..MaxRandom}

VARIABLES
    meds,          \* table medications: MedIds -> [active, times, times_minutes]
    history,       \* table medication_history: a set of rows
    nextId,        \* next value of the id column
    uniqueIndex,   \* whether the deployed schema has a unique index on unique_id
    clock,         \* get_brasilia_time(): [date, minutes]
    sched,         \* per process: the scheduler coroutine and its locals
    cb,            \* handle_callback in flight
    keyboards,     \* unique_ids carried by the keyboards of delivered alerts
    deliveries,    \* per row id: number of alerts delivered (saturating)
    keyLog,        \* every (medication_id, date, scheduled_time, unique_id) created
    recon,         \* clean_duplicates: [pc, today, records, to_delete, result, second]
    dbg,           \* run_debug: [pc, today, meds, i]
    fix            \* fix_schedule_data: [pc, today, records, reported, written, result]

vars == <<meds, history, nextId, uniqueIndex, clock, sched, cb, keyboards,
          deliveries, keyLog, recon, dbg, fix>>

(***************************************************************************)
(* The store.                                                              *)
(***************************************************************************)
Slot(r) == <<r.medication_id, r.date, r.scheduled_time>>

\* the rows of a set in ascending id order
RECURSIVE ById(_)
ById(rows) ==
    IF rows = {} THEN <<>>
    ELSE LET r == CHOOSE x \in rows : \A y \in rows : x.id <= y.id
         IN  <<r>> \o ById(rows \ {r})

Range(seq) == {seq[i] : i \in 1..Len(seq)}

\* insert(records): with a unique index on unique_id the statement is
\* rejected as a whole when a key collides, inside the batch or with a row
InsertAccepted(records) ==
    \/ ~uniqueIndex
    \/ /\ \A i, j \in 1..Len(records) :
              records[i].unique_id = records[j].unique_id => i = j
       /\ \A i \in 1..Len(records) :
              \A r \in history : r.unique_id # records[i].unique_id

\* an insert that first removes the other entries of the medications and
\* dates of the records
InsertRows_Replace(records) ==
    {r \in history :
        \A i \in 1..Len(records) :
           r.medication_id # records[i].medication_id
           \/ r.date # records[i].date} \cup
    { [id |-> nextId + i - 1,
       unique_id |-> records[i].unique_id,
       medication_id |-> records[i].medication_id,
       date |-> records[i].date,
       scheduled_time |-> records[i].scheduled_time,
       scheduled_minutes |-> records[i].scheduled_minutes,
       status |-> records[i].status] : i \in 1..Len(records) }

\* the table after insert(records): the store assigns the id column
InsertRows(records) ==
    history \cup
    { [id |-> nextId + i - 1,
       unique_id |-> records[i].unique_id,
       medication_id |-> records[i].medication_id,
       date |-> records[i].date,
       scheduled_time |-> records[i].scheduled_time,
       scheduled_minutes |-> records[i].scheduled_minutes,
       status |-> records[i].status] : i \in 1..Len(records) }

LogKeys(records) ==
    keyLog \cup { <<records[i].medication_id, records[i].date,
                    records[i].scheduled_time, records[i].unique_id>> :
                  i \in 1..Len(records) }

\* _get_active_meds_sync: the active medications, as dicts
ActiveMeds ==
    LET ids == {m \in MedIds : meds[m].active}
        Rec(m) == [id |-> m, times |-> meds[m].times,
                   times_minutes |-> meds[m].times_minutes]
        RECURSIVE Asc(_)
        Asc(S) == IF S = {} THEN <<>>
                  ELSE LET m == CHOOSE x \in S : \A y \in S : x <= y
                       IN  <<Rec(m)>> \o Asc(S \ {m})
    IN  Asc(ids)

\* _get_history_for_med_sync(med_id, today)
HistoryForMed(med_id, today) ==
    {r \in history : r.medication_id = med_id /\ r.date = today}

(***************************************************************************)
(* generate_daily_schedule: the records built for one medication.          *)
(***************************************************************************)
\* the check of line 208 left out
AlreadyExists_Never(t_str, existing_times) == FALSE

\* line 208: the slot is skipped when its time string is already there
AlreadyExists(t_str, existing_times) == t_str \in existing_times

\* lines 212-213: the idempotency key
UniqueId(med_id, today, t_str) == uuid5(med_id, today, t_str)

RECURSIVE NewRecords(_, _, _, _)
NewRecords(med_id, today, times, existing_times) ==
    IF times = <<>> THEN <<>>
    ELSE LET t_str == Head(times)
             rest == NewRecords(med_id, today, Tail(times), existing_times)
         IN  IF ~ParseOk(t_str) THEN rest
             ELSE IF AlreadyExists(t_str, existing_times) THEN rest
             ELSE <<[unique_id |-> UniqueId(med_id, today, t_str),
                     medication_id |-> med_id,
                     date |-> today,
                     scheduled_time |-> t_str,
                     scheduled_minutes |-> ParseMinutes(t_str),
                     status |-> "pending"]>> \o rest

(***************************************************************************)
(* The scheduler coroutine of one process.                                 *)
(***************************************************************************)
AbsMinutes(c) == c.date * 1440 + c.minutes

\* line 398: (now - last_schedule_check).total_seconds() > 300
SyncDue(now, last) == (AbsMinutes(now) - AbsMinutes(last)) * 60 > 300

AtMostOnePerSlot(rows) ==
    \A r1, r2 \in rows : Slot(r1) = Slot(r2) => r1 = r2

\* a write of another actor that adds or removes rows or edits medications
MarkDirty(sc, actor) ==
    [t \in Procs |-> IF t = actor THEN sc[t] ELSE [sc[t] EXCEPT !.dirty = TRUE]]

\* generate_daily_schedule without its try: the exception of a pass leaves
\* the coroutine
GenReturn_Propagate(st, ok) ==
    [st EXCEPT !.pc = IF ~ok THEN "stopped"
                      ELSE IF st.ret = "startup" THEN "tick" ELSE "poll",
               !.last_schedule_check =
                    IF st.ret = "startup" THEN clock ELSE st.now,
               !.gen_result = IF ok THEN "ok" ELSE "failed",
               !.last_clean = IF ok /\ ~st.dirty THEN st.today ELSE 0,
               !.today = 0, !.meds = <<>>, !.i = 0, !.existing_times = {},
               !.second = FALSE, !.prior_ok = FALSE]

\* generate_daily_schedule returns to its caller (line 390 or line 401)
GenReturn(st, ok) ==
    [st EXCEPT !.pc = IF st.ret = "startup" THEN "tick" ELSE "poll",
               !.last_schedule_check =
                    IF st.ret = "startup" THEN clock ELSE st.now,
               !.gen_result = IF ok THEN "ok" ELSE "failed",
               !.last_clean = IF ok /\ ~st.dirty THEN st.today ELSE 0,
               !.today = 0, !.meds = <<>>, !.i = 0, !.existing_times = {},
               !.second = FALSE, !.prior_ok = FALSE]

\* lines 182-190: today, the active medications
GenBegin(st, ret, fetched) ==
    LET st1 == [st EXCEPT !.ret = ret,
                          !.today = clock.date,
                          !.second = (st.last_clean = clock.date /\ ~st.dirty),
                          !.dirty = FALSE,
                          !.last_clean = 0,
                          !.prior_ok = AtMostOnePerSlot(history),
                          !.gen_result = "none",
                          !.existing_times = {}]
    IN  IF ~fetched THEN GenReturn([st1 EXCEPT !.meds = <<>>], FALSE)
        ELSE IF ActiveMeds = <<>> THEN GenReturn([st1 EXCEPT !.meds = <<>>], TRUE)
        ELSE [st1 EXCEPT !.meds = ActiveMeds, !.i = 1, !.pc = "gen_history"]

\* line 389: the pass at startup
Startup(s) ==
    /\ sched[s].pc = "startup"
    /\ \E fetched \in BOOLEAN :
          sched' = [sched EXCEPT ![s] = GenBegin(sched[s], "startup", fetched)]
    /\ UNCHANGED <<meds, history, nextId, uniqueIndex, clock, cb, keyboards,
                   deliveries, keyLog, recon, dbg, fix>>

\* the loop goes on whatever the stop signal
LoopCondition_Always(st) == TRUE

\* line 392: while not stop_event.is_set()
LoopCondition(st) == ~st.stop_event

\* lines 392-401: the head of the loop and the periodic sync
Tick(s) ==
    /\ sched[s].pc = "tick"
    /\ LoopCondition(sched[s])
    /\ LET st == [sched[s] EXCEPT !.now = clock]
       IN  IF SyncDue(clock, sched[s].last_schedule_check)
           THEN \E fetched \in BOOLEAN :
                   sched' = [sched EXCEPT ![s] = GenBegin(st, "tick", fetched)]
           ELSE sched' = [sched EXCEPT ![s] = [st EXCEPT !.pc = "poll"]]
    /\ UNCHANGED <<meds, history, nextId, uniqueIndex, clock, cb, keyboards,
                   deliveries, keyLog, recon, dbg, fix>>

\* lines 194-195: the existing entries of the medication, or the exception
\* that ends the pass (line 231)
GenHistory(s) ==
    /\ sched[s].pc = "gen_history"
    /\ LET st == sched[s]
           med == st.meds[st.i]
       IN  \/ sched' = [sched EXCEPT ![s] =
                  [st EXCEPT !.pc = "gen_insert",
                             !.existing_times =
                                 {h.scheduled_time :
                                     h \in HistoryForMed(med.id, st.today)}]]
           \/ sched' = [sched EXCEPT ![s] = GenReturn(st, FALSE)]
    /\ UNCHANGED <<meds, history, nextId, uniqueIndex, clock, cb, keyboards,
                   deliveries, keyLog, recon, dbg, fix>>

\* the pass goes on to the next medication, or returns
GenAdvance(st) ==
    IF st.i < Len(st.meds)
    THEN [st EXCEPT !.i = st.i + 1, !.pc = "gen_history", !.existing_times = {}]
    ELSE GenReturn(st, TRUE)

\* lines 198-229: build the missing records and insert them in one batch
GenInsert(s) ==
    /\ sched[s].pc = "gen_insert"
    /\ LET st == sched[s]
           med == st.meds[st.i]
           new_records == NewRecords(med.id, st.today, med.times,
                                     st.existing_times)
       IN  IF new_records = <<>>
           THEN /\ sched' = [sched EXCEPT ![s] = GenAdvance(st)]
                /\ UNCHANGED <<history, nextId, keyLog>>
           ELSE \/ /\ InsertAccepted(new_records)
                   /\ nextId + Len(new_records) - 1 <= MaxRows
                   /\ history' = InsertRows(new_records)
                   /\ nextId' = nextId + Len(new_records)
                   /\ keyLog' = LogKeys(new_records)
                   /\ sched' = [MarkDirty(sched, s) EXCEPT ![s] = GenAdvance(st)]
                \/ /\ sched' = [sched EXCEPT ![s] = GenReturn(st, FALSE)]
                   /\ UNCHANGED <<history, nextId, keyLog>>
    /\ UNCHANGED <<meds, uniqueIndex, clock, cb, keyboards, deliveries,
                   recon, dbg, fix>>

\* lines 419-423: the tick is over; now is read again and the coroutine
\* waits for the next minute boundary
EnterWait(st) ==
    [st EXCEPT !.pc = "wait", !.now = clock, !.items = <<>>,
               !.tick_failed = {}]

\* the filter without .eq("date", today)
PendingNowFilter_AnyDate(r, today, minutes) ==
    /\ r.status = "pending"
    /\ r.scheduled_minutes <= minutes
    /\ r.scheduled_minutes >= minutes - CatchUpWindow

\* _get_pending_now_sync, lines 72-75: the filter of the query
PendingNowFilter(r, today, minutes) ==
    /\ r.status = "pending"
    /\ r.date = today
    /\ r.scheduled_minutes <= minutes
    /\ r.scheduled_minutes >= minutes - CatchUpWindow

\* _get_pending_now_sync, lines 57-78
get_pending_now(now) ==
    {r \in history : PendingNowFilter(r, now.date, now.minutes)}

Item(r) == [id |-> r.id, unique_id |-> r.unique_id]

RECURSIVE Items(_)
Items(rows) == IF rows = <<>> THEN <<>> ELSE <<Item(Head(rows))>> \o Items(Tail(rows))

\* line 404: the pending entries of the window, or [] when the query
\* raised (lines 79-81)
Poll(s) ==
    /\ sched[s].pc = "poll"
    /\ \E ok \in BOOLEAN :
          sched' = [sched EXCEPT ![s] =
              [sched[s] EXCEPT
                  !.pc = "polled",
                  !.poll_ok = ok,
                  !.items = IF ok THEN Items(ById(get_pending_now(clock)))
                            ELSE <<>>]]
    /\ UNCHANGED <<meds, history, nextId, uniqueIndex, clock, cb, keyboards,
                   deliveries, keyLog, recon, dbg, fix>>

\* lines 406-409: enter the loop over the entries found, or end the tick
Dispatch(s) ==
    /\ sched[s].pc = "polled"
    /\ LET st == [sched[s] EXCEPT !.poll_ok = FALSE]
       IN  sched' = [sched EXCEPT ![s] =
               IF st.items = <<>> THEN EnterWait(st)
               ELSE [st EXCEPT !.pc = "send"]]
    /\ UNCHANGED <<meds, history, nextId, uniqueIndex, clock, cb, keyboards,
                   deliveries, keyLog, recon, dbg, fix>>

\* the loop ends at the first entry whose delivery or mark failed
NextItem_StopOnFailure(st) ==
    IF Len(st.items) > 1 /\ st.tick_failed = {}
    THEN [st EXCEPT !.items = Tail(st.items), !.pc = "send"]
    ELSE EnterWait(st)

\* the loop of line 409 goes on to the next entry
NextItem(st) ==
    IF Len(st.items) > 1
    THEN [st EXCEPT !.items = Tail(st.items), !.pc = "send"]
    ELSE EnterWait(st)

\* mark_sent called whatever send_alert returned
ShouldMarkSent_Always(success) == TRUE

\* line 412: if success
ShouldMarkSent(success) == success

\* lines 411-412: send_alert for the entry at hand
Send(s) ==
    /\ sched[s].pc = "send"
    /\ LET st == sched[s]
           m == Head(st.items)
       IN  \E success \in BOOLEAN :
              /\ IF success
                 THEN /\ deliveries' = [deliveries EXCEPT ![m.id] =
                             IF @ < MaxDeliveries THEN @ + 1 ELSE @]
                      /\ keyboards' = keyboards \cup {m.unique_id}
                 ELSE UNCHANGED <<deliveries, keyboards>>
              /\ sched' = [sched EXCEPT ![s] =
                     IF ShouldMarkSent(success)
                     THEN [st EXCEPT !.pc = "mark",
                                     !.failed = @ \ {m.id}]
                     ELSE NextItem([st EXCEPT
                              !.failed =
                                  IF success THEN @ \ {m.id} ELSE @ \cup {m.id},
                              !.tick_failed =
                                  IF success THEN @ ELSE @ \cup {m.id}])]
    /\ UNCHANGED <<meds, history, nextId, uniqueIndex, clock, cb, keyLog,
                   recon, dbg, fix>>

\* _mark_sent_sync, lines 86-89: the filter of the update
MarkSentFilter(r, item_id) == r.id = item_id

\* line 413: mark_sent; a store failure is logged and swallowed (line 91)
Mark(s) ==
    /\ sched[s].pc = "mark"
    /\ LET st == sched[s]
           m == Head(st.items)
       IN  \/ /\ history' = {IF MarkSentFilter(r, m.id)
                                THEN [r EXCEPT !.status = "sent"] ELSE r :
                                r \in history}
              /\ sched' = [sched EXCEPT ![s] = NextItem(st)]
           \/ /\ UNCHANGED history
              /\ sched' = [sched EXCEPT ![s] =
                     NextItem([st EXCEPT !.tick_failed = @ \cup {m.id}])]
    /\ UNCHANGED <<meds, nextId, uniqueIndex, clock, cb, keyboards,
                   deliveries, keyLog, recon, dbg, fix>>

\* lines 423-426: the timed wait ends at the next minute boundary
Wake(s) ==
    /\ sched[s].pc = "wait"
    /\ AbsMinutes(clock) > AbsMinutes(sched[s].now)
    /\ sched' = [sched EXCEPT ![s].pc = "tick"]
    /\ UNCHANGED <<meds, history, nextId, uniqueIndex, clock, cb, keyboards,
                   deliveries, keyLog, recon, dbg, fix>>

\* lines 392, 428: the stop signal is set at the head of the loop
LoopExit(s) ==
    /\ sched[s].pc = "tick"
    /\ ~LoopCondition(sched[s])
    /\ sched' = [sched EXCEPT ![s].pc = "stopped"]
    /\ UNCHANGED <<meds, history, nextId, uniqueIndex, clock, cb, keyboards,
                   deliveries, keyLog, recon, dbg, fix>>

\* lines 423-424: the stop signal ends the timed wait
StopWait(s) ==
    /\ sched[s].pc = "wait"
    /\ sched[s].stop_event
    /\ sched' = [sched EXCEPT ![s].pc = "stopped"]
    /\ UNCHANGED <<meds, history, nextId, uniqueIndex, clock, cb, keyboards,
                   deliveries, keyLog, recon, dbg, fix>>

(***************************************************************************)
(* main: shutdown.                                                         *)
(***************************************************************************)
\* the positions at which the scheduler coroutine awaits the store or the
\* channel
AwaitPcs == {"startup", "gen_history", "gen_insert", "poll", "send", "mark"}

\* lines 460-465: main is interrupted while it waits, and sets the signal
Interrupt(s) ==
    /\ sched[s].main = "running"
    /\ sched[s].pc # "off"
    /\ sched' = [sched EXCEPT ![s].stop_event = TRUE, ![s].main = "grace"]
    /\ UNCHANGED <<meds, history, nextId, uniqueIndex, clock, cb, keyboards,
                   deliveries, keyLog, recon, dbg, fix>>

\* line 469: the scheduler ended within the grace period
GraceEnd(s) ==
    /\ sched[s].main = "grace"
    /\ sched[s].pc = "stopped"
    /\ sched' = [sched EXCEPT ![s].main = "done"]
    /\ UNCHANGED <<meds, history, nextId, uniqueIndex, clock, cb, keyboards,
                   deliveries, keyLog, recon, dbg, fix>>

\* lines 470-476: the grace period ran out while the scheduler awaited the
\* store or the channel: the task is cancelled at that await
GraceTimeout(s) ==
    /\ sched[s].main = "grace"
    /\ sched[s].pc \in AwaitPcs
    /\ sched' = [sched EXCEPT ![s].main = "done", ![s].pc = "cancelled"]
    /\ UNCHANGED <<meds, history, nextId, uniqueIndex, clock, cb, keyboards,
                   deliveries, keyLog, recon, dbg, fix>>

(***************************************************************************)
(* handle_callback.                                                        *)
(***************************************************************************)
CbIdle == [pc |-> "idle", unique_id |-> <<>>, status |-> "none"]

\* lines 362-367: a button of a delivered keyboard is pressed
CallbackQuery(unique_id, action) ==
    /\ cb.pc = "idle"
    /\ unique_id \in keyboards
    /\ cb' = [pc |-> "update", unique_id |-> unique_id,
              status |-> IF action = "taken" THEN "taken" ELSE "missed"]
    /\ UNCHANGED <<meds, history, nextId, uniqueIndex, clock, sched,
                   keyboards, deliveries, keyLog, recon, dbg, fix>>

\* the update without .eq("status", "sent")
FinalStatusFilter_NoGuard(r, unique_id) == r.unique_id = unique_id

\* the update guarded by status != pending instead of status = sent
FinalStatusFilter_NotPending(r, unique_id) ==
    r.unique_id = unique_id /\ r.status # "pending"

\* _update_final_status_sync, lines 96-100: the filter of the update
FinalStatusFilter(r, unique_id) ==
    r.unique_id = unique_id /\ r.status = "sent"

update_final_status(rows, unique_id, status) ==
    {IF FinalStatusFilter(r, unique_id) THEN [r EXCEPT !.status = status]
     ELSE r : r \in rows}

\* line 369: the guarded update; a store failure is logged and swallowed
\* (line 102), so the handler goes on to the success text either way
UpdateFinalStatus ==
    /\ cb.pc = "update"
    /\ \/ history' = update_final_status(history, cb.unique_id, cb.status)
       \/ UNCHANGED history
    /\ cb' = [cb EXCEPT !.pc = "edit"]
    /\ UNCHANGED <<meds, nextId, uniqueIndex, clock, sched, keyboards,
                   deliveries, keyLog, recon, dbg, fix>>

\* lines 371-379: the success text is shown (the error text only when the
\* channel raises); the handler returns
EditMessage ==
    /\ cb.pc = "edit"
    /\ cb' = CbIdle
    /\ UNCHANGED <<meds, history, nextId, uniqueIndex, clock, sched,
                   keyboards, deliveries, keyLog, recon, dbg, fix>>

(***************************************************************************)
(* The environment: the clock, the administrator.                          *)
(***************************************************************************)
\* time passes; points are the minutes of the day at which the clock is read
AdvanceClock(points) ==
    /\ \E d \in Days, m \in points :
          /\ AbsMinutes([date |-> d, minutes |-> m]) > AbsMinutes(clock)
          /\ d \in {clock.date, clock.date + 1}
          /\ clock' = [date |-> d, minutes |-> m]
    /\ UNCHANGED <<meds, history, nextId, uniqueIndex, sched, cb, keyboards,
                   deliveries, keyLog, recon, dbg, fix>>

\* the web panel edits a medication
AdminEdit(m, cfg) ==
    /\ cfg # meds[m]
    /\ meds' = [meds EXCEPT ![m] = cfg]
    /\ sched' = MarkDirty(sched, "admin")
    /\ UNCHANGED <<history, nextId, uniqueIndex, clock, cb, keyboards,
                   deliveries, keyLog, recon, dbg, fix>>

\* an entry is deleted from outside (main.py line 397)
ExternalDelete(r) ==
    /\ r \in history
    /\ history' = history \ {r}
    /\ sched' = MarkDirty(sched, "admin")
    /\ UNCHANGED <<meds, nextId, uniqueIndex, clock, cb, keyboards,
                   deliveries, keyLog, recon, dbg, fix>>

(***************************************************************************)
(* The maintenance scripts.  They take today from datetime.now(), the      *)
(* local date of the host they are run on.                                 *)
(***************************************************************************)
\* minutes by which the clock of a host is ahead of Brasilia (a host on
\* Brasilia time, a host on UTC)
HostOffsets == {0, 180}

LocalDate(offset) ==
    IF clock.minutes + offset >= 1440 THEN clock.date + 1 ELSE clock.date

LocalDates == {LocalDate(offset) : offset \in HostOffsets}

ReconIdle ==
    [pc |-> "idle", today |-> 0, records |-> <<>>, to_delete |-> <<>>,
     result |-> "none", second |-> FALSE]

DbgIdle == [pc |-> "idle", today |-> 0, meds |-> <<>>, i |-> 0]

FixIdle ==
    [pc |-> "idle", today |-> 0, records |-> <<>>, reported |-> {},
     written |-> {}, result |-> "none"]

(***************************************************************************)
(* clean_duplicates.                                                       *)
(***************************************************************************)
\* lines 41-45
status_priority(rec) ==
    IF rec.status \in {"taken", "missed"} THEN 3
    ELSE IF rec.status = "sent" THEN 2
    ELSE 1

\* the records of priority p, in the order of duplicate_list
WithPriority(duplicate_list, p) ==
    SelectSeq(duplicate_list, LAMBDA rec : status_priority(rec) = p)

\* sort without reverse=True: lowest priority first
SortByPriority_Ascending(duplicate_list) ==
    WithPriority(duplicate_list, 1)
      \o WithPriority(duplicate_list, 2)
      \o WithPriority(duplicate_list, 3)

\* line 47: duplicate_list.sort(key=status_priority, reverse=True); the sort
\* is stable, so records of equal priority keep the order they were read in
SortByPriority(duplicate_list) ==
    WithPriority(duplicate_list, 3)
      \o WithPriority(duplicate_list, 2)
      \o WithPriority(duplicate_list, 1)

\* line 30
GroupKey(r) == <<r.medication_id, r.scheduled_time>>

\* the whole group is deleted
Duplicates_All(duplicate_list) == duplicate_list

\* only the second record of a sorted group is deleted
Duplicates_SecondOnly(duplicate_list) ==
    IF Len(duplicate_list) > 1 THEN <<duplicate_list[2]>> ELSE <<>>

\* lines 50-51: keep = duplicate_list[0]; to_delete = duplicate_list[1:]
Duplicates(duplicate_list) == Tail(duplicate_list)

\* lines 29-58: the records to delete, in the order they are deleted: group
\* by group in the order the groups were first seen, all but the first of
\* each sorted group
RECURSIVE ToDelete(_)
ToDelete(records) ==
    IF records = <<>> THEN <<>>
    ELSE LET key == GroupKey(Head(records))
             duplicate_list == SelectSeq(records, LAMBDA r : GroupKey(r) = key)
             rest == ToDelete(SelectSeq(records, LAMBDA r : GroupKey(r) # key))
         IN  IF Len(duplicate_list) > 1
             THEN Duplicates(SortByPriority(duplicate_list)) \o rest
             ELSE rest

\* the sequences that list the rows of a set once each
Orderings(rows) ==
    {seq \in [1..Cardinality(rows) -> rows] :
        \A i, j \in 1..Cardinality(rows) : seq[i] = seq[j] => i = j}

\* lines 14-24: today and the records of today, in the order the store
\* returns them (the query has no order); an exception ends the script
ReconRead ==
    /\ recon.pc = "idle"
    /\ \E today \in LocalDates :
          \/ \E records \in Orderings({r \in history : r.date = today}) :
                recon' = [pc |-> IF ToDelete(records) = <<>> THEN "idle"
                                 ELSE "delete",
                          today |-> today,
                          records |-> records,
                          to_delete |-> ToDelete(records),
                          result |-> IF ToDelete(records) = <<>> THEN "ok"
                                     ELSE "none",
                          second |-> (recon.result = "ok"
                                      /\ recon.today = today)]
          \/ recon' = [ReconIdle EXCEPT !.today = today, !.result = "failed"]
    /\ UNCHANGED <<meds, history, nextId, uniqueIndex, clock, sched, cb,
                   keyboards, deliveries, keyLog, dbg, fix>>

\* lines 55-58: delete one duplicate by id; an exception ends the script
ReconDelete ==
    /\ recon.pc = "delete"
    /\ LET d == Head(recon.to_delete)
       IN  \/ /\ history' = {r \in history : r.id # d.id}
              /\ sched' = MarkDirty(sched, "recon")
              /\ recon' = [recon EXCEPT
                              !.to_delete = Tail(@),
                              !.pc = IF Len(recon.to_delete) > 1 THEN "delete"
                                     ELSE "idle",
                              !.result = IF Len(recon.to_delete) > 1 THEN "none"
                                         ELSE "ok"]
           \/ /\ recon' = [recon EXCEPT !.pc = "idle", !.result = "failed",
                                        !.to_delete = <<>>]
              /\ UNCHANGED <<history, sched>>
    /\ UNCHANGED <<meds, nextId, uniqueIndex, clock, cb, keyboards,
                   deliveries, keyLog, dbg, fix>>

(***************************************************************************)
(* run_debug.                                                              *)
(***************************************************************************)
\* lines 16-27: today and the active medications
DebugBegin ==
    /\ dbg.pc = "idle"
    /\ \E today \in LocalDates :
          \/ dbg' = IF ActiveMeds = <<>> THEN [DbgIdle EXCEPT !.today = today]
                    ELSE [pc |-> "history", today |-> today,
                          meds |-> ActiveMeds, i |-> 1]
          \/ dbg' = [DbgIdle EXCEPT !.today = today]
    /\ UNCHANGED <<meds, history, nextId, uniqueIndex, clock, sched, cb,
                   keyboards, deliveries, keyLog, recon, fix>>

DebugAdvance ==
    IF dbg.i < Len(dbg.meds)
    THEN [dbg EXCEPT !.i = dbg.i + 1, !.pc = "history"]
    ELSE [DbgIdle EXCEPT !.today = dbg.today]

\* lines 34-44: a medication that has any entry today is skipped
DebugHistory ==
    /\ dbg.pc = "history"
    /\ \/ dbg' = IF HistoryForMed(dbg.meds[dbg.i].id, dbg.today) # {}
                 THEN DebugAdvance
                 ELSE [dbg EXCEPT !.pc = "insert"]
       \/ dbg' = [DbgIdle EXCEPT !.today = dbg.today]
    /\ UNCHANGED <<meds, history, nextId, uniqueIndex, clock, sched, cb,
                   keyboards, deliveries, keyLog, recon, fix>>

Min(a, b) == IF a < b THEN a ELSE b

\* lines 57-69: one record per pair of zip(times, minutes), keyed by uuid4
DebugRecords(med, today, uids) ==
    [k \in 1..Min(Len(med.times), Len(med.times_minutes)) |->
        [unique_id |-> uids[k],
         medication_id |-> med.id,
         date |-> today,
         scheduled_time |-> med.times[k],
         scheduled_minutes |-> med.times_minutes[k],
         status |-> "pending"]]

\* lines 72-77: insert the records, if any; an exception ends the script
DebugInsert ==
    /\ dbg.pc = "insert"
    /\ LET med == dbg.meds[dbg.i]
           n == Min(Len(med.times), Len(med.times_minutes))
       IN  IF n = 0
           THEN /\ dbg' = DebugAdvance
                /\ UNCHANGED <<history, nextId, keyLog, sched>>
           ELSE \/ \E uids \in [1..n -> uuid4_values] :
                      LET new_records == DebugRecords(med, dbg.today, uids)
                      IN  /\ InsertAccepted(new_records)
                          /\ nextId + n - 1 <= MaxRows
                          /\ history' = InsertRows(new_records)
                          /\ nextId' = nextId + n
                          /\ keyLog' = LogKeys(new_records)
                          /\ sched' = MarkDirty(sched, "debug")
                          /\ dbg' = DebugAdvance
                \/ /\ dbg' = [DbgIdle EXCEPT !.today = dbg.today]
                   /\ UNCHANGED <<history, nextId, keyLog, sched>>
    /\ UNCHANGED <<meds, uniqueIndex, clock, cb, keyboards, deliveries, recon, fix>>

(***************************************************************************)
(* fix_schedule_data.  Each record is handled on its own, so the order in  *)
(* which the store returns the records is taken to be that of their ids.   *)
(***************************************************************************)
\* lines 14-26: today and the records of today; an exception ends the script
FixRead ==
    /\ fix.pc = "idle"
    /\ \E today \in LocalDates :
          \/ LET records == ById({r \in history : r.date = today})
             IN  fix' = [pc |-> IF records = <<>> THEN "idle" ELSE "fix",
                         today |-> today,
                         records |-> records,
                         reported |-> {},
                         written |-> {},
                         result |-> IF records = <<>> THEN "ok" ELSE "none"]
          \/ fix' = [FixIdle EXCEPT !.today = today, !.result = "failed"]
    /\ UNCHANGED <<meds, history, nextId, uniqueIndex, clock, sched, cb,
                   keyboards, deliveries, keyLog, recon, dbg>>

\* the loop of line 28 goes on to the next record, or the script ends
FixAdvance(st) ==
    IF Len(st.records) > 1
    THEN [st EXCEPT !.records = Tail(st.records)]
    ELSE [st EXCEPT !.records = <<>>, !.pc = "idle", !.result = "ok"]

\* no record is ever written
FixNeeded_Never(current_min, correct_min) == FALSE

\* line 40: if current_min != correct_min
FixNeeded(current_min, correct_min) == current_min # correct_min

\* lines 44-47: the update of scheduled_minutes by id
FixUpdate(rows, id, correct_min) ==
    {IF r.id = id THEN [r EXCEPT !.scheduled_minutes = correct_min] ELSE r :
     r \in rows}

\* lines 29-49: one record: a time that does not parse is reported and
\* skipped (lines 36-38); a wrong scheduled_minutes is corrected; an
\* exception of the update ends the script (line 53)
FixStep ==
    /\ fix.pc = "fix"
    /\ LET r == Head(fix.records)
           time_str == r.scheduled_time
       IN  IF ~ParseOk(time_str)
           THEN /\ fix' = FixAdvance([fix EXCEPT !.reported = @ \cup {r.id}])
                /\ UNCHANGED history
           ELSE IF FixNeeded(r.scheduled_minutes, ParseMinutes(time_str))
           THEN \/ /\ history' = FixUpdate(history, r.id,
                                            ParseMinutes(time_str))
                   /\ fix' = FixAdvance([fix EXCEPT !.written = @ \cup {r.id}])
                \/ /\ fix' = [fix EXCEPT !.pc = "idle", !.result = "failed"]
                   /\ UNCHANGED history
           ELSE /\ fix' = FixAdvance(fix)
                /\ UNCHANGED history
    /\ UNCHANGED <<meds, nextId, uniqueIndex, clock, sched, cb, keyboards,
                   deliveries, keyLog, recon, dbg>>

(***************************************************************************)
(* Initial states and specifications.                                      *)
(***************************************************************************)
SchedOff ==
    [pc |-> "off", ret |-> "startup", today |-> 0, meds |-> <<>>, i |-> 0,
     existing_times |-> {}, gen_result |-> "none", last_clean |-> 0,
     dirty |-> FALSE, second |-> FALSE, prior_ok |-> FALSE,
     now |-> [date |-> 0, minutes |-> 0],
     last_schedule_check |-> [date |-> 0, minutes |-> 0],
     items |-> <<>>, poll_ok |-> FALSE, failed |-> {}, tick_failed |-> {},
     stop_event |-> FALSE, main |-> "running"]


InitCommon ==
    /\ history = {}
    /\ nextId = 1
    /\ uniqueIndex \in BOOLEAN
    /\ cb = CbIdle
    /\ keyboards = {}
    /\ deliveries = [id \in RowIds |-> 0]
    /\ keyLog = {}
    /\ recon = ReconIdle
    /\ dbg = DbgIdle
    /\ fix = FixIdle

\* the medications tables the runs start from
TableA ==
    (1 :> [active |-> TRUE, times |-> <<T0920, T1005>>,
           times_minutes |-> <<560, 605>>]) @@
    (2 :> [active |-> TRUE, times |-> <<T0950>>, times_minutes |-> <<590>>])

TableB ==
    (1 :> [active |-> TRUE, times |-> <<T0950, T0950>>,
           times_minutes |-> <<590, 590>>]) @@
    (2 :> [active |-> FALSE, times |-> <<TBad, T0950>>,
           times_minutes |-> <<400>>])

TableC ==
    (1 :> [active |-> TRUE, times |-> <<T0950>>, times_minutes |-> <<590>>]) @@
    (2 :> [active |-> FALSE, times |-> <<T0950>>, times_minutes |-> <<590>>])

\* a times_minutes list that is shorter than times and not aligned with it
TableD ==
    (1 :> [active |-> TRUE, times |-> <<T0920, T0950>>,
           times_minutes |-> <<590>>]) @@
    (2 :> [active |-> FALSE, times |-> <<T0950>>, times_minutes |-> <<590>>])

\* a time of day past the end of the day; times_minutes, entered apart
\* from it, holds another value
TableE ==
    (1 :> [active |-> TRUE, times |-> <<T2430>>, times_minutes |-> <<590>>]) @@
    (2 :> [active |-> FALSE, times |-> <<T0950>>, times_minutes |-> <<590>>])

\* times lists that hold strings that are not HH:MM
TableF ==
    (1 :> [active |-> TRUE, times |-> <<T095x, T0950>>,
           times_minutes |-> <<590, 590>>]) @@
    (2 :> [active |-> TRUE, times |-> <<TBad, T0920>>,
           times_minutes |-> <<0, 560>>])

\* a medication due two minutes before midnight that the administrator has
\* not switched on yet; since is the instant of the last edit
TableG ==
    [m \in MedIds |->
        [active |-> FALSE, times |-> <<T2358>>, times_minutes |-> <<1438>>,
         since |-> [date |-> 0, minutes |-> 0]]]

OneProcess ==
    [s \in Procs |->
        IF s = "s1" THEN [SchedOff EXCEPT !.pc = "startup"] ELSE SchedOff]

\* one bot process, the administrator and the patients
Init ==
    /\ InitCommon
    /\ meds \in {TableA, TableC}
    /\ clock = [date |-> 1, minutes |-> 590]
    /\ sched = OneProcess

SchedulerStep(s) ==
    \/ Startup(s)
    \/ Tick(s)
    \/ GenHistory(s)
    \/ GenInsert(s)
    \/ Poll(s)
    \/ Dispatch(s)
    \/ Send(s)
    \/ Mark(s)
    \/ Wake(s)

Next ==
    \/ \E s \in Procs : SchedulerStep(s)
    \/ \E u \in keyboards, a \in {"taken", "missed"} : CallbackQuery(u, a)
    \/ UpdateFinalStatus
    \/ EditMessage
    \/ AdvanceClock(ClockPoints)

Spec == Init /\ [][Next]_vars

\* one bot process in the early morning, before any entry is due (no entry
\* is in the window, so nothing is sent), while the administrator switches
\* medications on and off and deletes entries
InitGen ==
    /\ InitCommon
    /\ meds \in {TableB, TableC}
    /\ clock = [date |-> 1, minutes |-> 300]
    /\ sched = OneProcess

NextGen ==
    \/ \E s \in Procs : Startup(s)
    \/ \E s \in Procs : Tick(s)
    \/ \E s \in Procs : GenHistory(s)
    \/ \E s \in Procs : GenInsert(s)
    \/ \E s \in Procs : Poll(s)
    \/ \E s \in Procs : Dispatch(s)
    \/ \E s \in Procs : Wake(s)
    \/ AdvanceClock(EarlyPoints)
    \/ \E m \in MedIds : AdminEdit(m, [meds[m] EXCEPT !.active = ~@])
    \/ \E r \in history : ExternalDelete(r)

SpecGen == InitGen /\ [][NextGen]_vars

\* two bot processes started against the same store on the same day
InitTwo ==
    /\ InitCommon
    /\ meds = TableC
    /\ clock = [date |-> MaxDay, minutes |-> 590]
    /\ sched = [s \in Procs |-> [SchedOff EXCEPT !.pc = "startup"]]

SpecTwo == InitTwo /\ [][Next]_vars

\* one bot process in the early morning and the debug script, while entries
\* are deleted from outside
InitKeys ==
    /\ InitCommon
    /\ meds = TableC
    /\ clock = [date |-> MaxDay, minutes |-> 300]
    /\ sched = OneProcess

NextKeys ==
    \/ \E s \in Procs : Startup(s)
    \/ \E s \in Procs : Tick(s)
    \/ \E s \in Procs : GenHistory(s)
    \/ \E s \in Procs : GenInsert(s)
    \/ \E s \in Procs : Poll(s)
    \/ \E s \in Procs : Dispatch(s)
    \/ \E s \in Procs : Wake(s)
    \/ AdvanceClock(EarlyPoints)
    \/ \E r \in history : ExternalDelete(r)
    \/ DebugBegin
    \/ DebugHistory
    \/ DebugInsert

SpecKeys == InitKeys /\ [][NextKeys]_vars

\* one bot process in the early morning and the debug script, on a
\* medication whose times_minutes does not match its times
InitDerived ==
    /\ InitCommon
    /\ meds = TableD
    /\ clock = [date |-> MaxDay, minutes |-> 300]
    /\ sched = OneProcess

SpecDerived == InitDerived /\ [][NextKeys]_vars

\* one bot process in the early morning, the debug script and the repair
\* script, on a medication whose time of day is past the end of the day
InitRange ==
    /\ InitCommon
    /\ meds = TableE
    /\ clock = [date |-> MaxDay, minutes |-> 300]
    /\ sched = OneProcess

NextRange ==
    \/ \E s \in Procs : Startup(s)
    \/ \E s \in Procs : Tick(s)
    \/ \E s \in Procs : GenHistory(s)
    \/ \E s \in Procs : GenInsert(s)
    \/ \E s \in Procs : Poll(s)
    \/ \E s \in Procs : Dispatch(s)
    \/ \E s \in Procs : Wake(s)
    \/ AdvanceClock(EarlyPoints)
    \/ DebugBegin
    \/ DebugHistory
    \/ DebugInsert
    \/ FixRead
    \/ FixStep

SpecRange == InitRange /\ [][NextRange]_vars

\* one bot process in the early morning, on medications whose times lists
\* hold malformed strings, while entries are deleted from outside
InitMalformed ==
    /\ InitCommon
    /\ meds = TableF
    /\ clock = [date |-> MaxDay, minutes |-> 300]
    /\ sched = OneProcess

NextMalformed ==
    \/ \E s \in Procs : Startup(s)
    \/ \E s \in Procs : Tick(s)
    \/ \E s \in Procs : GenHistory(s)
    \/ \E s \in Procs : GenInsert(s)
    \/ \E s \in Procs : Poll(s)
    \/ \E s \in Procs : Dispatch(s)
    \/ \E s \in Procs : Wake(s)
    \/ AdvanceClock(EarlyPoints)
    \/ \E r \in history : ExternalDelete(r)

SpecMalformed == InitMalformed /\ [][NextMalformed]_vars

\* one bot process late in the evening, and the two maintenance scripts run
\* by hand on a host on Brasilia time or on a host on UTC
InitDates ==
    /\ InitCommon
    /\ uniqueIndex = FALSE
    /\ meds = TableB
    /\ clock = [date |-> 1, minutes |-> 1290]
    /\ sched = OneProcess

NextDates ==
    \/ \E s \in Procs : Startup(s)
    \/ \E s \in Procs : Tick(s)
    \/ \E s \in Procs : GenHistory(s)
    \/ \E s \in Procs : GenInsert(s)
    \/ \E s \in Procs : Poll(s)
    \/ \E s \in Procs : Dispatch(s)
    \/ \E s \in Procs : Wake(s)
    \/ AdvanceClock(LatePoints)
    \/ ReconRead
    \/ ReconDelete
    \/ FixRead
    \/ FixStep

SpecDates == InitDates /\ [][NextDates]_vars

\* the day on which the run below begins, ten minutes before midnight
RunDay == MaxDay - 1

\* the run ends half an hour after midnight
EndOfRun == (RunDay + 1) * 1440 + 29

\* the store and the channel do not fail in this step of the scheduler
NoFailure(s) ==
    /\ sched'[s].gen_result # "failed"
    /\ sched'[s].pc = "polled" => sched'[s].poll_ok
    /\ sched[s].pc = "send" => sched'[s].pc = "mark"
    /\ sched[s].pc = "mark" =>
          \A r \in history' :
             r.id = Head(sched[s].items).id => r.status = "sent"

ReliableStep(s) == SchedulerStep(s) /\ NoFailure(s)

\* lines 419-426: the next minute boundary is reached after every tick has
\* ended, so the loop ticks once in every minute
MinutePasses ==
    /\ AbsMinutes(clock) < EndOfRun
    /\ \A s \in Procs :
          \/ sched[s].pc = "off"
          \/ sched[s].pc = "wait" /\ sched[s].now = clock
    /\ clock' = IF clock.minutes = 1439
                THEN [date |-> clock.date + 1, minutes |-> 0]
                ELSE [clock EXCEPT !.minutes = @ + 1]
    /\ UNCHANGED <<meds, history, nextId, uniqueIndex, sched, cb, keyboards,
                   deliveries, keyLog, recon, dbg, fix>>

\* the administrator switches a medication on
Configure(m) ==
    /\ ~meds[m].active
    /\ AdminEdit(m, [meds[m] EXCEPT !.active = TRUE, !.since = clock])

\* one bot process around midnight with a store and a channel that do not
\* fail, ticking every minute, while the administrator switches the
\* medication on
InitEventual ==
    /\ InitCommon
    /\ meds = TableG
    /\ clock = [date |-> RunDay, minutes |-> 1430]
    /\ sched = OneProcess

NextEventual ==
    \/ \E s \in Procs : ReliableStep(s)
    \/ MinutePasses
    \/ Configure(1)

SpecEventual == InitEventual /\ [][NextEventual]_vars

\* the rows generation leaves for one time of day of today when slots were
\* filled more than once (a times list that repeats the time, or passes
\* that raced): the first rows belong to medication 1, the others to
\* medication 2, each in any status the Poller and the Response Handler can
\* have brought it to
DuplicateStores ==
    UNION { { { [id |-> k,
                 unique_id |-> UniqueId(IF k <= first THEN 1 ELSE 2,
                                        MaxDay, T0950),
                 medication_id |-> IF k <= first THEN 1 ELSE 2,
                 date |-> MaxDay,
                 scheduled_time |-> T0950,
                 scheduled_minutes |-> ParseMinutes(T0950),
                 status |-> f[k]] : k \in 1..n } :
              f \in [1..n -> Statuses], first \in 1..n } : n \in 1..MaxRows }

\* the reconciliation script run, any number of times, on a store that
\* holds duplicates
InitRecon ==
    /\ history \in DuplicateStores
    /\ nextId = Cardinality(history) + 1
    /\ uniqueIndex = FALSE
    /\ meds = TableB
    /\ clock = [date |-> MaxDay, minutes |-> 600]
    /\ sched = [s \in Procs |-> SchedOff]
    /\ cb = CbIdle
    /\ keyboards = {r.unique_id : r \in {x \in history : x.status # "pending"}}
    /\ deliveries = [id \in RowIds |->
                       IF \E r \in history : r.id = id /\ r.status # "pending"
                       THEN 1 ELSE 0]
    /\ keyLog = {<<r.medication_id, r.date, r.scheduled_time, r.unique_id>> :
                    r \in history}
    /\ recon = ReconIdle
    /\ dbg = DbgIdle
    /\ fix = FixIdle

NextRecon ==
    \/ ReconRead
    \/ ReconDelete

SpecRecon == InitRecon /\ [][NextRecon]_vars

\* one bot process on a table without a unique index whose medication
\* repeats a time of day, the patients, and the two maintenance scripts run
\* by hand at any moment
InitMaint ==
    /\ InitCommon
    /\ uniqueIndex = FALSE
    /\ meds = TableB
    /\ clock = [date |-> MaxDay, minutes |-> 590]
    /\ sched = OneProcess

NextMaint ==
    \/ Next
    \/ ReconRead
    \/ ReconDelete
    \/ FixRead
    \/ FixStep

SpecMaint == InitMaint /\ [][NextMaint]_vars

\* one bot process that is interrupted at any moment; the store calls and
\* the channel calls of the scheduler return or raise, the event loop runs
\* the coroutines that are ready, and time passes
InitStop ==
    /\ InitCommon
    /\ meds = TableC
    /\ clock = [date |-> MaxDay, minutes |-> 590]
    /\ sched = OneProcess

SchedulerRuns ==
    \E s \in Procs : SchedulerStep(s) \/ LoopExit(s) \/ StopWait(s)

MainRuns ==
    \E s \in Procs : GraceEnd(s) \/ GraceTimeout(s)

NextStop ==
    \/ \E s \in Procs : SchedulerStep(s)
    \/ \E s \in Procs : LoopExit(s)
    \/ \E s \in Procs : StopWait(s)
    \/ \E s \in Procs : Interrupt(s)
    \/ \E s \in Procs : GraceEnd(s)
    \/ \E s \in Procs : GraceTimeout(s)
    \/ AdvanceClock(ClockPoints)

SpecStop ==
    /\ InitStop
    /\ [][NextStop]_vars
    /\ WF_vars(SchedulerRuns)
    /\ WF_vars(MainRuns)
    /\ WF_vars(AdvanceClock(ClockPoints))

\* one bot process and the patients, while the administrator replaces the
\* time of day of the medication
InitFrame ==
    /\ InitCommon
    /\ meds = TableC
    /\ clock = [date |-> MaxDay, minutes |-> 590]
    /\ sched = OneProcess

NextFrame ==
    \/ Next
    \/ \E t \in {T0920, T0950} :
          AdminEdit(1, [meds[1] EXCEPT !.times = <<t>>,
                                       !.times_minutes = <<ParseMinutes(t)>>])

SpecFrame == InitFrame /\ [][NextFrame]_vars

\* the entries run_debug leaves, today and the day before: the time of day
\* is copied unparsed from times and the minute from times_minutes
RepairStores ==
    UNION { { { [id |-> k,
                 unique_id |-> <<"uuid4", 1>>,
                 medication_id |-> 1,
                 date |-> d[k],
                 scheduled_time |-> t[k],
                 scheduled_minutes |-> m[k],
                 status |-> "pending"] : k \in 1..n } :
              d \in [1..n -> {MaxDay - 1, MaxDay}],
              t \in [1..n -> {T0950, TBad}],
              m \in [1..n -> {400, 590}] } : n \in 1..MaxRows }

\* the repair script run, any number of times, on such a store
InitRepair ==
    /\ history \in RepairStores
    /\ nextId = Cardinality(history) + 1
    /\ uniqueIndex = FALSE
    /\ meds = TableB
    /\ clock = [date |-> MaxDay, minutes |-> 600]
    /\ sched = [s \in Procs |-> SchedOff]
    /\ cb = CbIdle
    /\ keyboards = {}
    /\ deliveries = [id \in RowIds |-> 0]
    /\ keyLog = {<<r.medication_id, r.date, r.scheduled_time, r.unique_id>> :
                    r \in history}
    /\ recon = ReconIdle
    /\ dbg = DbgIdle
    /\ fix = FixIdle

NextRepair ==
    \/ FixRead
    \/ FixStep

SpecRepair == InitRepair /\ [][NextRepair]_vars

(***************************************************************************)
(* Properties.                                                             *)
(***************************************************************************)
GenPcs == {"gen_history", "gen_insert"}

\* process s completes a pass without a store failure in this step
PassCompletes(s) ==
    /\ sched[s].pc = "gen_insert"
    /\ sched'[s].pc \notin GenPcs
    /\ sched'[s].gen_result = "ok"

EntriesOf(rows, med_id, date, t_str) ==
    {r \in rows : r.medication_id = med_id /\ r.date = date
                  /\ r.scheduled_time = t_str}

\* C1: when a Generator pass completes without a store failure, started
\* from a store with at most one entry per slot and with nobody else
\* writing meanwhile, then for the pass's date and every active medication
\* there is exactly one entry for each parsable time of its times list; and
\* no step of a pass inserts an entry for a slot that already had one.
GeneratorPostcondition ==
    [][\A s \in Procs :
          /\ (PassCompletes(s) /\ sched[s].prior_ok /\ ~sched[s].dirty) =>
                \A i \in 1..Len(sched[s].meds) :
                   \A t_str \in Range(sched[s].meds[i].times) :
                      ParseOk(t_str) =>
                         Cardinality(EntriesOf(history', sched[s].meds[i].id,
                                               sched[s].today, t_str)) = 1
          /\ (sched[s].pc = "gen_insert" /\ sched'[s].pc # "gen_insert") =>
                \A r \in history' \ history :
                   EntriesOf(history, r.medication_id, r.date,
                             r.scheduled_time) = {}]_vars

\* C2: a Generator pass that starts on the date for which the previous pass
\* of the process completed without a store failure, with no medication
\* edited and no entry inserted or deleted by anyone else since that pass
\* began, leaves the store as it is in every one of its steps.
IdempotentGeneration ==
    [][\A s \in Procs :
          (/\ sched[s].pc \in GenPcs
           /\ sched'[s].pc # sched[s].pc
           /\ sched[s].second
           /\ ~sched[s].dirty) => history' = history]_vars

\* a second pass is about to insert, having found the first pass's entries
IdempotentGenerationWitness ==
    \E s \in Procs :
       /\ sched[s].pc = "gen_insert"
       /\ sched[s].second
       /\ ~sched[s].dirty
       /\ sched[s].existing_times # {}

\* C3: whatever the interleaving of two Generator passes, the store never
\* holds two entries for the same (medication, date, time-of-day).
ConcurrentGenerationSafety ==
    \A r1, r2 \in history :
       (/\ r1.medication_id = r2.medication_id
        /\ r1.date = r2.date
        /\ r1.scheduled_time = r2.scheduled_time) => r1.id = r2.id

ItemIds(items) == {items[i].id : i \in 1..Len(items)}

\* C5: a fetch of the Poller that the store answers selects exactly the
\* entries that are pending, dated today, and scheduled in
\* [now - 30, now]; a fetch that raised selects nothing.
CatchUpWindowSelection ==
    [][\A s \in Procs :
          (sched[s].pc = "poll" /\ sched'[s].pc = "polled") =>
             ItemIds(sched'[s].items) =
                IF sched'[s].poll_ok
                THEN {r.id : r \in
                        {x \in history :
                            /\ x.status = "pending"
                            /\ x.date = clock.date
                            /\ clock.minutes - 30 <= x.scheduled_minutes
                            /\ x.scheduled_minutes <= clock.minutes}}
                ELSE {}]_vars

\* at minute 600 the entry at 590 is selected, those at 560 and 605 are not
CatchUpWindowWitness ==
    \E s \in Procs :
       /\ sched[s].pc = "polled"
       /\ sched[s].poll_ok
       /\ clock.minutes = 600
       /\ \E a, b, c \in history :
             /\ a.date = clock.date /\ a.status = "pending"
             /\ a.scheduled_minutes = 590 /\ a.id \in ItemIds(sched[s].items)
             /\ b.date = clock.date /\ b.status = "pending"
             /\ b.scheduled_minutes = 560 /\ b.id \notin ItemIds(sched[s].items)
             /\ c.date = clock.date /\ c.status = "pending"
             /\ c.scheduled_minutes = 605 /\ c.id \notin ItemIds(sched[s].items)

\* C6: an entry becomes sent only by the mark of a process whose delivery of
\* that entry succeeded; a failed delivery changes no entry and is not
\* followed by a mark; and an entry whose delivery failed is selected again
\* by the next answered fetch while it is pending and inside the window.
DispatchOutcome ==
    [][\A s \in Procs :
          /\ \A r \in history, r2 \in history' :
                (r.id = r2.id /\ r.status # "sent" /\ r2.status = "sent"
                 /\ sched'[s] # sched[s]) =>
                    /\ sched[s].pc = "mark"
                    /\ Head(sched[s].items).id = r.id
                    /\ deliveries[r.id] >= 1
          /\ (sched[s].pc = "send" /\ sched'[s] # sched[s]
              /\ deliveries' = deliveries) =>
                 (history' = history /\ sched'[s].pc # "mark")
          /\ (sched[s].pc = "poll" /\ sched'[s].pc = "polled"
              /\ sched'[s].poll_ok) =>
                 \A id \in sched[s].failed :
                    (\E r \in history :
                        /\ r.id = id /\ r.status = "pending"
                        /\ r.date = clock.date
                        /\ clock.minutes - 30 <= r.scheduled_minutes
                        /\ r.scheduled_minutes <= clock.minutes)
                    => id \in ItemIds(sched'[s].items)]_vars

\* an entry whose delivery failed on an earlier tick is attempted again
DispatchOutcomeWitness ==
    \E s \in Procs :
       /\ sched[s].pc = "send"
       /\ Head(sched[s].items).id \in sched[s].failed
       /\ \E r \in history :
             r.id = Head(sched[s].items).id /\ r.status = "pending"

\* C7: the update of the Response Handler changes an entry only when its
\* key matches and its status is sent, and then sets it to the requested
\* terminal status; when the store applies the update every such entry is
\* changed; a pending entry stays pending, and the handler goes on to the
\* success text whatever the entry's status was.
FinalizationGuard ==
    [][(cb.pc = "update" /\ cb'.pc # "update") =>
          /\ cb'.pc = "edit"
          /\ cb.status \in {"taken", "missed"}
          /\ \/ history' = history
             \/ history' =
                  {IF r.unique_id = cb.unique_id /\ r.status = "sent"
                   THEN [r EXCEPT !.status = cb.status] ELSE r : r \in history}
          /\ \A r \in history :
                r.status = "pending" => r \in history']_vars

\* an acknowledged sent entry has just been finalized
FinalizationGuardWitness ==
    /\ cb.pc = "edit"
    /\ \E r \in history :
          r.unique_id = cb.unique_id /\ r.status = cb.status

\* C8: every change of the status of an entry is pending -> sent,
\* sent -> taken or sent -> missed.
MonotonicStatus ==
    [][\A r \in history, r2 \in history' :
          (r.id = r2.id /\ r.status # r2.status) =>
             <<r.status, r2.status>> \in
                {<<"pending", "sent">>, <<"sent", "taken">>,
                 <<"sent", "missed">>}]_vars

\* C9: an acknowledgment never changes an entry that is taken or missed.
TerminalStability ==
    [][(cb.pc = "update" /\ cb'.pc # "update") =>
          \A r \in history :
             r.status \in {"taken", "missed"} => r \in history']_vars

\* an acknowledgment for the opposite action is about to be applied to an
\* entry that is already finalized
TerminalStabilityWitness ==
    /\ cb.pc = "update"
    /\ \E r \in history :
          /\ r.unique_id = cb.unique_id
          /\ r.status \in {"taken", "missed"}
          /\ r.status # cb.status

\* C4: every entry ever created for a (medication_id, date, time-of-day)
\* carries the same idempotency key.
DeterministicKeys ==
    \A k1, k2 \in keyLog :
       (k1[1] = k2[1] /\ k1[2] = k2[2] /\ k1[3] = k2[3]) => k1[4] = k2[4]

\* the precedence of a status: taken = missed = 3 > sent = 2 > pending = 1
Precedence(status) ==
    CASE status \in {"taken", "missed"} -> 3
      [] status = "sent" -> 2
      [] OTHER -> 1

\* the entry the claim names as survivor of the group of key among records:
\* the first read among those of the highest precedence as read
Survivor(records, key) ==
    CHOOSE i \in 1..Len(records) :
       /\ GroupKey(records[i]) = key
       /\ \A j \in 1..Len(records) :
             GroupKey(records[j]) = key =>
                \/ Precedence(records[j].status) < Precedence(records[i].status)
                \/ /\ Precedence(records[j].status) = Precedence(records[i].status)
                   /\ i <= j

\* C10: when a Reconciliation pass completes, every group (medication,
\* time-of-day) of its date that had more than one entry when read has
\* exactly one entry left, and it is the first read among the entries of
\* the group whose precedence, as read, was the highest.
ReconciliationSurvivor ==
    [][(recon.pc = "delete" /\ recon'.pc = "idle" /\ recon'.result = "ok") =>
          \A i \in 1..Len(recon.records) :
             LET key == GroupKey(recon.records[i])
                 group == {j \in 1..Len(recon.records) :
                              GroupKey(recon.records[j]) = key}
                 left == {r \in history' :
                             r.date = recon.today /\ GroupKey(r) = key}
             IN  Cardinality(group) > 1 =>
                    /\ Cardinality(left) = 1
                    /\ \A r \in left :
                          r.id = recon.records[Survivor(recon.records, key)].id]_vars

\* a pass has completed on a group read as pending, sent, taken, and the
\* taken entry is the one left
ReconciliationSurvivorWitness ==
    /\ recon.pc = "idle"
    /\ recon.result = "ok"
    /\ Len(recon.records) = 3
    /\ recon.records[1].status = "pending"
    /\ recon.records[2].status = "sent"
    /\ recon.records[3].status = "taken"
    /\ \A i, j \in 1..3 : GroupKey(recon.records[i]) = GroupKey(recon.records[j])
    /\ {r.id : r \in history} = {recon.records[3].id}

\* C11: a Reconciliation pass that follows a completed pass for the same
\* date, with no entry written in between, finds nothing to delete: it ends
\* at once and the store is as it was.
ReconciliationIdempotence ==
    [][(recon.pc = "idle" /\ recon'.second) =>
          /\ recon'.pc = "idle"
          /\ recon'.to_delete = <<>>
          /\ recon'.result = "ok"
          /\ history' = history]_vars

\* a second pass has run after a pass that deleted duplicates
ReconciliationIdempotenceWitness ==
    /\ recon.second
    /\ recon.pc = "idle"
    /\ Cardinality(history) < nextId - 1
    /\ Len(recon.records) = Cardinality(history)

\* the entry of the store that has the id of a record the pass read
RowOfRecord(rows, rec) == {r \in rows : r.id = rec.id}

\* C13: a record whose time does not parse is reported, nothing is written
\* for it and the pass goes on to the next record; a record whose time
\* parses is written if and only if its scheduled_minutes is not
\* hour*60+minute, and after the step the entry holds hour*60+minute with
\* every other field as it was; the step changes no other entry.  Hence
\* after a pass that completes every entry of its date is as the claim says.
RepairCorrectness ==
    [][(fix.pc = "fix" /\ fix'.result # "failed" /\ fix' # fix) =>
          LET rec == Head(fix.records)
              t == rec.scheduled_time
          IN  /\ \A r \in history : r.id # rec.id => r \in history'
              /\ ~ParseOk(t) =>
                    /\ history' = history
                    /\ rec.id \in fix'.reported
                    /\ rec.id \notin fix'.written
                    /\ Len(fix.records) > 1 =>
                          (fix'.pc = "fix" /\ fix'.records = Tail(fix.records))
              /\ ParseOk(t) =>
                    /\ rec.id \notin fix'.reported
                    /\ (rec.id \in fix'.written) <=>
                          (rec.scheduled_minutes # ParseMinutes(t))
                    /\ rec.id \notin fix'.written => history' = history
                    /\ \A r \in RowOfRecord(history, rec) :
                          [r EXCEPT !.scheduled_minutes = ParseMinutes(t)]
                             \in history'
              /\ (fix'.pc = "idle" /\ fix'.result = "ok") =>
                    \A r \in history' :
                       (r.date = fix.today /\ ParseOk(r.scheduled_time)) =>
                          r.scheduled_minutes = ParseMinutes(r.scheduled_time)]_vars

\* a pass has completed that corrected 09:50 / 400 to 590 and reported
\* and left alone an entry whose time is not HH:MM
RepairCorrectnessWitness ==
    /\ fix.pc = "idle"
    /\ fix.result = "ok"
    /\ \E a, b \in history :
          /\ a.id \in fix.written
          /\ a.scheduled_time = T0950 /\ a.scheduled_minutes = 590
          /\ b.id \in fix.reported /\ b.id > a.id
          /\ b.scheduled_time = TBad /\ b.scheduled_minutes = 400

Ids(rows) == {r.id : r \in rows}

\* C12: an entry leaves the store only by a delete of the Reconciliation
\* pass (no step of the Generator, the Poller, the Response Handler or
\* Repair removes one), the entry removed is the one the pass is at, and
\* its (medication, date, time-of-day) still has an entry afterwards: a
\* slot that has an entry never becomes empty, and the only entry of a
\* slot is never removed, whether the pass completes or is aborted.
ReconciliationKeepsSlots ==
    [][\A r \in history :
          r.id \notin Ids(history') =>
             /\ recon.pc = "delete"
             /\ sched' = MarkDirty(sched, "recon")
             /\ <<cb', fix', dbg'>> = <<cb, fix, dbg>>
             /\ Head(recon.to_delete).id = r.id
             /\ \E k \in history' : Slot(k) = Slot(r)]_vars

\* a pass has completed that read two entries of a slot and left one
ReconciliationKeepsSlotsWitness ==
    /\ recon.pc = "idle"
    /\ recon.result = "ok"
    /\ Len(recon.records) = 2
    /\ Slot(recon.records[1]) = Slot(recon.records[2])
    /\ Cardinality(history) = 1
    /\ \E r \in history : Slot(r) = Slot(recon.records[1])

\* C14: a Generator pass returns only after its last active medication: when
\* the fetch of the existing entries or the insert fails for one
\* medication, the pass goes on, and when it returns every medication after
\* the failed one has an entry for each parsable time of its times list.
GeneratorFailureIsolation ==
    [][\A s \in Procs :
          (sched[s].pc \in GenPcs /\ sched'[s].pc \notin GenPcs) =>
             \A j \in (sched[s].i + 1)..Len(sched[s].meds) :
                \A t_str \in Range(sched[s].meds[j].times) :
                   ParseOk(t_str) =>
                      EntriesOf(history', sched[s].meds[j].id,
                                sched[s].today, t_str) # {}]_vars

\* C15: no entry is successfully delivered to its patient more than once.
NoDuplicateAlerts ==
    \A id \in RowIds : deliveries[id] <= 1

\* C16: a delivery or mark of one entry changes no other entry and no
\* other entry's deliveries; whether it fails or not, and whether or not
\* an earlier entry of the tick failed, the loop goes on to the next entry
\* selected in the tick without waiting; and an entry whose delivery
\* succeeds goes to its mark, whose write, when the store applies it, sets
\* the entry to sent, while a failed delivery or mark leaves it as it was.
PerEntryIsolation ==
    [][\A s \in Procs :
          (sched[s].pc \in {"send", "mark"} /\ sched'[s] # sched[s]) =>
             LET m == Head(sched[s].items)
                 failed_now == m.id \in sched'[s].tick_failed
                               \/ (sched'[s].pc = "wait"
                                   /\ sched[s].pc = "send"
                                   /\ deliveries' = deliveries)
                               \/ (sched'[s].pc = "wait"
                                   /\ sched[s].pc = "mark"
                                   /\ history' = history)
             IN  /\ \A r \in history : r.id # m.id => r \in history'
                 /\ \A id \in RowIds \ {m.id} : deliveries'[id] = deliveries[id]
                 /\ (Len(sched[s].items) > 1 /\ sched'[s].pc # "mark") =>
                       /\ sched'[s].pc = "send"
                       /\ sched'[s].items = Tail(sched[s].items)
                 /\ (sched[s].pc = "send" /\ ~failed_now) =>
                       (sched'[s].pc = "mark" /\ deliveries'[m.id] >= 1)
                 /\ (sched[s].pc = "mark" /\ ~failed_now) =>
                       \A r \in history' : r.id = m.id => r.status = "sent"
                 /\ failed_now => history' = history]_vars

\* an entry has been delivered in a tick in which the attempt on an earlier
\* entry failed
PerEntryIsolationWitness ==
    \E s \in Procs :
       /\ sched[s].pc = "mark"
       /\ sched[s].tick_failed # {}
       /\ Head(sched[s].items).id \notin sched[s].tick_failed
       /\ deliveries[Head(sched[s].items).id] >= 1

EndedPcs == {"stopped", "cancelled"}

\* a failure of the current iteration: of the Generator pass, of the fetch
\* of the pending entries, of a delivery or of a mark
IterationFailed(s) ==
    \/ sched[s].pc \in {"poll", "polled", "send", "mark"}
          /\ sched[s].gen_result = "failed"
    \/ sched[s].pc = "polled" /\ ~sched[s].poll_ok
    \/ sched[s].tick_failed # {}

\* the clock can still advance
TimeLeft == AbsMinutes(clock) < MaxDay * 1440 + 600

\* C17: the driver loop ends only when the stop signal is set; an iteration
\* in which the Generator pass, the fetch, a delivery or a mark failed
\* still reaches the wait at its end (or the stop signal is set); and from
\* the wait, while time passes, the loop comes back to its head for the
\* next tick (or the stop signal is set).
DriverLoopSurvival ==
    /\ [][\A s \in Procs :
             (sched'[s].pc \in EndedPcs /\ sched[s].pc \notin EndedPcs) =>
                sched[s].stop_event]_vars
    /\ \A s \in Procs :
          IterationFailed(s) ~> (sched[s].pc = "wait" \/ sched[s].stop_event)
    /\ \A s \in Procs :
          (sched[s].pc = "wait" /\ TimeLeft) ~>
             (sched[s].pc = "tick" \/ sched[s].stop_event)

\* the tick after one in which a delivery failed is under way
DriverLoopSurvivalWitness ==
    \E s \in Procs :
       /\ sched[s].pc = "poll"
       /\ sched[s].failed # {}
       /\ ~sched[s].stop_event

\* C18: with the stop signal set, the head of the loop starts no tick and
\* ends the loop, and the wait ends without the minute boundary being
\* reached; the scheduler is cancelled only by main, after main has set the
\* signal and begun its grace wait, and only if it has not ended; main
\* leaves the grace wait only when the scheduler has ended; and once the
\* signal is set the scheduler ends.
CooperativeStop ==
    /\ [][\A s \in Procs :
             /\ (sched[s].stop_event /\ sched[s].pc = "tick"
                 /\ sched'[s].pc # "tick") => sched'[s].pc = "stopped"
             /\ (sched[s].stop_event /\ sched[s].pc = "wait") =>
                   ENABLED StopWait(s)
             /\ (sched[s].stop_event /\ sched[s].pc = "wait"
                 /\ sched'[s].pc # "wait") => sched'[s].pc \in {"stopped", "tick"}
             /\ (sched'[s].pc = "cancelled" /\ sched[s].pc # "cancelled") =>
                   /\ sched[s].main = "grace"
                   /\ sched[s].stop_event
                   /\ sched[s].pc \notin EndedPcs
             /\ (sched[s].main = "grace" /\ sched'[s].main # "grace") =>
                   sched'[s].pc \in EndedPcs]_vars
    /\ \A s \in Procs :
          sched[s].stop_event ~> (sched[s].pc \in EndedPcs)

\* the stop signal was set during the wait and ended it before the minute
\* boundary; main has seen the scheduler end within the grace period
CooperativeStopWitness ==
    \E s \in Procs :
       /\ sched[s].pc = "stopped"
       /\ sched[s].main = "done"
       /\ sched[s].now.date # 0
       /\ AbsMinutes(clock) = AbsMinutes(sched[s].now)

\* C19: every step of a Generator pass leaves every entry that was in the
\* store in it, with all its fields, an entry whose time of day is no
\* longer in the times list included; what it adds has status pending.
GeneratorFrame ==
    [][\A s \in Procs :
          (sched[s].pc \in {"startup", "tick"} \cup GenPcs
           /\ sched'[s] # sched[s]) =>
             /\ history \subseteq history'
             /\ \A r \in history' \ history : r.status = "pending"]_vars

\* a pass is about to insert an entry for the new time of day of a
\* medication that has an entry, already sent or acknowledged, for a time
\* that is no longer in its times list
GeneratorFrameWitness ==
    \E s \in Procs :
       /\ sched[s].pc = "gen_insert"
       /\ LET med == sched[s].meds[sched[s].i]
          IN  /\ NewRecords(med.id, sched[s].today, med.times,
                            sched[s].existing_times) # <<>>
              /\ \E r \in history :
                    /\ r.medication_id = med.id
                    /\ r.date = sched[s].today
                    /\ r.scheduled_time \notin Range(med.times)
                    /\ r.status # "pending"

\* C20: every entry has scheduled_minutes equal to hour*60+minute parsed
\* from its own scheduled_time.
DerivedField ==
    \A r \in history :
       /\ ParseOk(r.scheduled_time)
       /\ r.scheduled_minutes = ParseMinutes(r.scheduled_time)

\* C21: every entry the Generator inserts and every value Repair writes
\* has scheduled_minutes in 0..1439.
MinuteOfDayRange ==
    [][/\ \A s \in Procs :
             sched[s].pc = "gen_insert" /\ sched'[s] # sched[s] =>
                \A r \in history' \ history : r.scheduled_minutes \in 0..1439
       /\ (fix.pc = "fix" /\ fix' # fix) =>
             \A r \in history' \ history : r.scheduled_minutes \in 0..1439]_vars

\* the string is two integer literals separated by one colon
ParsesAsTime(t_str) ==
    /\ Len(split(t_str, ":")) = 2
    /\ \A i \in 1..2 : IntOk(split(t_str, ":")[i])

\* C22: the Generator inserts no entry for a string that does not parse; a
\* pass is aborted at the step that builds the records of a medication only
\* by the insert itself, never by a string; and a pass that completes, with
\* nobody else writing meanwhile, leaves an entry for every parsable time of
\* every active medication, those whose lists hold malformed strings
\* included.
MalformedTimeSkipped ==
    [][\A s \in Procs :
          (sched[s].pc = "gen_insert" /\ sched'[s] # sched[s]) =>
             LET med == sched[s].meds[sched[s].i]
             IN  /\ \A r \in history' \ history :
                       /\ ParsesAsTime(r.scheduled_time)
                       /\ r.scheduled_time \in Range(med.times)
                 /\ sched'[s].gen_result = "failed" =>
                       \E t_str \in Range(med.times) :
                          ParsesAsTime(t_str) /\ t_str \notin sched[s].existing_times
                 /\ (PassCompletes(s) /\ ~sched[s].dirty) =>
                       \A i \in 1..Len(sched[s].meds) :
                          \A t_str \in Range(sched[s].meds[i].times) :
                             ParsesAsTime(t_str) =>
                                EntriesOf(history', sched[s].meds[i].id,
                                          sched[s].today, t_str) # {}]_vars

\* a pass has completed on two medications whose lists hold a malformed
\* string each: their other times have entries, the malformed ones none
MalformedTimeSkippedWitness ==
    \E s \in Procs :
       /\ sched[s].gen_result = "ok"
       /\ sched[s].pc = "poll"
       /\ EntriesOf(history, 1, clock.date, T0950) # {}
       /\ EntriesOf(history, 2, clock.date, T0920) # {}
       /\ EntriesOf(history, 1, clock.date, T095x) = {}
       /\ EntriesOf(history, 2, clock.date, TBad) = {}

\* C23: the date a Generator pass, a Reconciliation pass or a Repair pass
\* takes as today when it begins is the date of the fixed-timezone clock at
\* that instant.
SingleCivilDate ==
    [][/\ \A s \in Procs :
             (sched[s].pc \in {"startup", "tick"}
              /\ sched'[s].pc \in GenPcs) => sched'[s].today = clock.date
       /\ (recon.pc = "idle" /\ recon' # recon) => recon'.today = clock.date
       /\ (fix.pc = "idle" /\ fix' # fix) => fix'.today = clock.date]_vars

\* C24: when the Response Handler applies an acknowledgment, no entry of
\* the acknowledged key whose alert was delivered is still pending.
NoLostAcknowledgment ==
    [][(cb.pc = "update" /\ cb'.pc # "update") =>
          \A r \in history :
             (r.unique_id = cb.unique_id /\ deliveries[r.id] >= 1) =>
                r.status # "pending"]_vars

\* C25: when a Reconciliation pass deletes an entry, the status the entry
\* has at that moment has no higher precedence than the status, at that
\* moment, of the entry the pass keeps for the group.
ReconciliationLiveWriters ==
    [][\A r \in history :
          (recon.pc = "delete" /\ r.id \notin Ids(history')) =>
             \A k \in history :
                k.id = recon.records[Survivor(recon.records, GroupKey(r))].id =>
                   Precedence(r.status) <= Precedence(k.status)]_vars

\* C26: once more than 30 minutes have passed since the scheduled minute of
\* a time of day of an active medication that was configured before that
\* minute of the day of the run, the slot has an entry that was sent.
EventualDispatch ==
    \A m \in MedIds :
       \A t_str \in Range(meds[m].times) :
          (/\ meds[m].active
           /\ ParseOk(t_str)
           /\ AbsMinutes(meds[m].since) < RunDay * 1440 + ParseMinutes(t_str)
           /\ AbsMinutes(clock) > RunDay * 1440 + ParseMinutes(t_str) + 30) =>
              \E r \in history :
                 /\ Slot(r) = <<m, RunDay, t_str>>
                 /\ r.status # "pending"

=============================================================================
